---- MODULE Spec2Model ----
(***************************************************************************)
(* The smart terminal status output of ui/terminal/smart_status.go: one    *)
(* renderer (smartStatusOutput), a set of goroutines calling Message,      *)
(* StartAction, FinishAction, Write and Flush, the SIGWINCH goroutine      *)
(* started by startSigwinch, the operating system delivering resize        *)
(* notifications, and the terminal that interprets the bytes of the sink.  *)
(*                                                                         *)
(* A Go string is a sequence of bytes.  A byte is written here as a short   *)
(* string: "a" is a printable ASCII byte, "NL" is \n, "CR" is \r, and      *)
(* "U1" "U2" are the lead and the continuation byte of one two-byte UTF-8  *)
(* character.  The three escape sequences the code writes are each one     *)
(* token: "EL" is \x1b[K, "SGR1" is \x1b[1m, "SGR0" is \x1b[0m (each is    *)
(* passed whole to one fmt.Fprint, and no text of the model holds \x1b).   *)
(***************************************************************************)
EXTENDS Integers, Sequences, FiniteSets

\* ------------------------------------------------------------------ bounds

\* Calls of the dispatcher made in one behaviour, over all callers.
MaxCalls == 2

\* Longest text (in bytes) a caller or the formatter hands to the renderer.
MaxLen == 2

\* Widest terminal, in columns.
MaxWidth == 2

\* Resizes of the terminal in one behaviour.
MaxResizes == 1

\* The resizes in the specification of the goroutine: one can follow another
\* before the goroutine is back at its receive.
MaxWatchResizes == 2

\* ---------------------------------------------------------------- constants

Callers == {"c1", "c2"}

None == "none"

CR == "CR"

NL == "NL"

EL == "EL"

SGR1 == "SGR1"

SGR0 == "SGR0"

\* status.StatusLvl: Message compares its level with it; only the order of the
\* levels matters, one level below it and one above it are enough.
StatusLvl == 1

Levels == {StatusLvl - 1, StatusLvl, StatusLvl + 1}

SeqsUpTo(S, n) == UNION {[1..k -> S] : k \in 0..n}

\* The texts callers and the formatter hand to the renderer: every string of
\* printable bytes and newlines up to MaxLen.
Texts == SeqsUpTo({"a", NL}, MaxLen)

\* The texts of the model with two concurrent callers: one byte shorter.
ShortTexts == SeqsUpTo({"a", NL}, MaxLen - 1)

Widths == 1..MaxWidth

\* The texts of the single-call model of statusLine: every byte string up to
\* MaxLen over a printable byte, the newline and the two bytes of a two-byte
\* character, and the example of the specification.
Alphabet15 == <<"A", "B", "C", "D", "E", "F", "G", "H", "I", "J", "K", "L", "M", "N", "O">>

ProbeTexts == SeqsUpTo({"a", NL, "U1", "U2"}, MaxLen) \cup {Alphabet15}

ProbeWidths == (0..(MaxWidth + 1)) \cup {10}

VARIABLES
  writer,           \* the bytes the sink has received, in order
  haveBlankLine,    \* smartStatusOutput.haveBlankLine
  termWidth,        \* smartStatusOutput.termWidth
  lock,             \* smartStatusOutput.lock: its holder, or None
  sigwinch,         \* the channel s.sigwinch: "open" or "closed"
  notifying,        \* signal.Notify(s.sigwinch, SIGWINCH) is in force
  sigwinchHandled,  \* s.sigwinchHandled is a channel (TRUE) or nil (FALSE)
  wpc,              \* where the goroutine of startSigwinch is
  pc,               \* where each caller is
  op,               \* the call each caller is making
  ret,              \* what each caller's call returned, None if nothing
  todo,             \* the calls of print, statusLine, ... a caller still makes
  wrote,            \* the bytes a caller's current call has written
  realWidth,        \* the terminal's width, as the operating system knows it
  screen,           \* the terminal: its rows of cells and the cursor's column
  expected,         \* the outputs of the calls, in the order they took the lock
  hist,             \* the last call of print, statusLine or requestLine: f its
                    \* name, hbl haveBlankLine on entry, fit whether the status
                    \* line on display was written with a known width no larger
                    \* than the terminal's or was short enough for the
                    \* terminal anyway, prevFit the same one call earlier
  nstatus,          \* calls of statusLine so far
  ncalls,           \* calls of the dispatcher so far
  nresizes,         \* resizes so far
  lost,             \* resize notifications no goroutine was ready to receive
  lastQuery,        \* the result of the last width query: "ok" or "failed"
  panicked          \* a goroutine panicked: the process is gone

vars == <<writer, haveBlankLine, termWidth, lock, sigwinch, notifying,
          sigwinchHandled, wpc, pc, op, ret, todo, wrote, realWidth,
          screen,
          expected, hist, nstatus, ncalls, nresizes, lost, lastQuery,
          panicked>>

rendererVars == <<writer, haveBlankLine, wrote, screen, hist, nstatus>>

sigVars == <<sigwinch, notifying, sigwinchHandled, wpc, lost>>

envVars == <<realWidth, nresizes, lastQuery>>

\* ------------------------------------------------------------ pure helpers

Min(a, b) == IF a < b THEN a ELSE b

\* strings.IndexRune(str, '\n'): the index (from 1) of the first newline, 0 if none.
IndexNewline(str) ==
  IF \E i \in 1..Len(str) : str[i] = NL
  THEN CHOOSE i \in 1..Len(str) : str[i] = NL /\ \A j \in 1..(i - 1) : str[j] # NL
  ELSE 0

\* statusLine's first statement: str[0:idx] when there is a newline.
CutAtNewline(str) ==
  IF IndexNewline(str) # 0 THEN SubSeq(str, 1, IndexNewline(str) - 1) ELSE str

\* A plausible slip in elide: the cut keeps one byte too many.
elideOffByOne(str, w) == IF Len(str) > w THEN SubSeq(str, 1, w + 1) ELSE str

\* elide: len(str) and str[:s.termWidth] count bytes.
elide(str, w) == IF Len(str) > w THEN SubSeq(str, 1, w) ELSE str

\* The text statusLine puts between the escapes.
StatusText(str, w) ==
  IF w > 0 THEN elide(CutAtNewline(str), w) ELSE CutAtNewline(str)

\* The one fmt.Fprint of statusLine: start, str, end.
StatusBytes(str, w) == <<CR, SGR1>> \o StatusText(str, w) \o <<SGR0, EL>>

\* The bytes print writes, given haveBlankLine on entry.
PrintBytes(str, hbl) ==
  (IF hbl THEN <<>> ELSE <<CR, EL>>)
    \o str
    \o (IF Len(str) = 0 \/ str[Len(str)] # NL THEN <<NL>> ELSE <<>>)

\* The bytes requestLine writes, given haveBlankLine on entry.
RequestBytes(hbl) == IF hbl THEN <<>> ELSE <<NL>>

\* ------------------------------------------------------------- the terminal

\* A cell of the screen: the byte shown and the call of statusLine that wrote
\* it (0: a byte of a permanent line).
Cell(b, tag) == [ch |-> b, tag |-> tag]

Put(row, i, c) == IF i <= Len(row) THEN [row EXCEPT ![i] = c] ELSE Append(row, c)

\* One byte interpreted by the terminal, which is `width` columns wide: \r
\* returns to column 0, \n starts a new row, \x1b[K clears from the cursor to
\* the end of the row, the two SGR sequences and the continuation byte of a
\* character move nothing, and any other byte is put at the cursor, on a new
\* row when the row is full.
FeedByte(scr, b, width, tag) ==
  LET n == Len(scr.rows)
      row == scr.rows[n]
  IN  CASE b = CR -> [scr EXCEPT !.col = 0]
        [] b = NL -> [rows |-> Append(scr.rows, <<>>), col |-> 0]
        [] b = EL -> [scr EXCEPT !.rows[n] = SubSeq(row, 1, Min(scr.col, Len(row)))]
        [] b \in {SGR1, SGR0, "U2"} -> scr
        [] OTHER ->
             IF scr.col >= width
             THEN [rows |-> Append(scr.rows, <<Cell(b, tag)>>), col |-> 1]
             ELSE [rows |-> [scr.rows EXCEPT ![n] = Put(row, scr.col + 1, Cell(b, tag))],
                   col |-> scr.col + 1]

RECURSIVE Feed(_, _, _, _)
Feed(scr, bytes, width, tag) ==
  IF bytes = <<>> THEN scr
  ELSE Feed(FeedByte(scr, Head(bytes), width, tag), Tail(bytes), width, tag)

CursorRow == screen.rows[Len(screen.rows)]

\* The cells of the screen written by call number k of statusLine.
CellsOf(k) ==
  UNION {{<<r, c>> : c \in {i \in 1..Len(screen.rows[r]) : screen.rows[r][i].tag = k}} :
           r \in 1..Len(screen.rows)}

\* --------------------------------------------------------------- the calls

NoOp == [kind |-> None, level |-> 0, str |-> <<>>, output |-> <<>>]

Call(f, s) == [f |-> f, s |-> s]

\* A caller has computed its strings and goes for the lock.
Enter(p, o, t) ==
  /\ ~panicked
  /\ pc[p] = "idle"
  /\ ncalls < MaxCalls
  /\ ncalls' = ncalls + 1
  /\ op' = [op EXCEPT ![p] = o]
  /\ todo' = [todo EXCEPT ![p] = t]
  /\ wrote' = [wrote EXCEPT ![p] = <<>>]
  /\ UNCHANGED <<writer, haveBlankLine, termWidth, lock, sigVars, envVars, ret,
                 screen, expected, hist, nstatus, panicked>>

\* A slip in Message: the levels below the status level are not dropped.
MessageNoThreshold(p, T) ==
  \E level \in Levels, str \in T :
    /\ Enter(p, [kind |-> "Message", level |-> level, str |-> str, output |-> <<>>],
             IF level > StatusLvl THEN <<Call("print", str)>>
                                  ELSE <<Call("statusLine", str)>>)
    /\ pc' = [pc EXCEPT ![p] = "lock"]

\* A slip in Message: the two branches swapped.
MessageSwapped(p, T) ==
  \E level \in Levels :
    IF level < StatusLvl
    THEN /\ Enter(p, [kind |-> "Message", level |-> level, str |-> <<>>, output |-> <<>>], <<>>)
         /\ pc' = [pc EXCEPT ![p] = "done"]
    ELSE \E str \in T :
           /\ Enter(p, [kind |-> "Message", level |-> level, str |-> str, output |-> <<>>],
                    IF level > StatusLvl THEN <<Call("statusLine", str)>>
                                         ELSE <<Call("print", str)>>)
           /\ pc' = [pc EXCEPT ![p] = "lock"]

\* Message: a level below the status level returns at once; otherwise the
\* formatter's string (any text) is printed, or set as the status line.
Message(p, T) ==
  \E level \in Levels :
    IF level < StatusLvl
    THEN /\ Enter(p, [kind |-> "Message", level |-> level, str |-> <<>>, output |-> <<>>], <<>>)
         /\ pc' = [pc EXCEPT ![p] = "done"]
    ELSE \E str \in T :
           /\ Enter(p, [kind |-> "Message", level |-> level, str |-> str, output |-> <<>>],
                    IF level > StatusLvl THEN <<Call("print", str)>>
                                         ELSE <<Call("statusLine", str)>>)
           /\ pc' = [pc EXCEPT ![p] = "lock"]

\* StartAction: progress + str (any text) becomes the status line.
StartAction(p, T) ==
  \E str \in T :
    /\ Enter(p, [kind |-> "StartAction", level |-> 0, str |-> str, output |-> <<>>],
             <<Call("statusLine", str)>>)
    /\ pc' = [pc EXCEPT ![p] = "lock"]

\* A slip in FinishAction: the status line is not committed before the output.
FinishActionNoRequest(p, T) ==
  \E progress \in Texts, output \in T :
    /\ Enter(p, [kind |-> "FinishAction", level |-> 0, str |-> progress, output |-> output],
             IF output # <<>>
             THEN <<Call("statusLine", progress), Call("print", output)>>
             ELSE <<Call("statusLine", progress)>>)
    /\ pc' = [pc EXCEPT ![p] = "lock"]

\* FinishAction: progress (any text) and the formatter's result (any text).
FinishAction(p, T) ==
  \E progress \in Texts, output \in T :
    /\ Enter(p, [kind |-> "FinishAction", level |-> 0, str |-> progress, output |-> output],
             IF output # <<>>
             THEN <<Call("statusLine", progress), Call("requestLine", <<>>),
                    Call("print", output)>>
             ELSE <<Call("statusLine", progress)>>)
    /\ pc' = [pc EXCEPT ![p] = "lock"]

Flush(p) ==
  /\ Enter(p, [kind |-> "Flush", level |-> 0, str |-> <<>>, output |-> <<>>],
           <<Call("stopSigwinch", <<>>), Call("requestLine", <<>>)>>)
  /\ pc' = [pc EXCEPT ![p] = "lock"]

Write(p, T) ==
  \E bytes \in T :
    /\ Enter(p, [kind |-> "Write", level |-> 0, str |-> bytes, output |-> <<>>],
             <<Call("print", bytes)>>)
    /\ pc' = [pc EXCEPT ![p] = "lock"]

\* ---------------------------------------------------------------- the lock

\* A slip: the lock is taken without waiting for it.
AcquireNoWait(p) == lock' = p

\* sync.Mutex.Lock: blocks until the lock is free.
Acquire(p) == lock = None /\ lock' = p

\* What a call writes when it runs alone from a state with the given
\* haveBlankLine, termWidth and channel: its calls in order, each complete.
RECURSIVE RunOutput(_, _, _, _)
RunOutput(t, hbl, w, ch) ==
  IF t = <<>> THEN <<>>
  ELSE LET c == Head(t)
       IN  CASE c.f = "statusLine" -> StatusBytes(c.s, w) \o RunOutput(Tail(t), FALSE, w, ch)
             [] c.f = "requestLine" -> RequestBytes(hbl) \o RunOutput(Tail(t), TRUE, w, ch)
             [] c.f = "print" -> PrintBytes(c.s, hbl) \o RunOutput(Tail(t), TRUE, w, ch)
             [] c.f = "stopSigwinch" ->
                  IF ch = "closed" THEN <<>> ELSE RunOutput(Tail(t), hbl, w, "closed")

\* s.lock.Lock() of a caller.
Lock(p) ==
  /\ ~panicked
  /\ pc[p] = "lock"
  /\ Acquire(p)
  /\ pc' = [pc EXCEPT ![p] = "in"]
  /\ expected' = expected \o RunOutput(todo[p], haveBlankLine, termWidth, sigwinch)
  /\ UNCHANGED <<rendererVars, termWidth, sigVars, envVars, op, ret, todo, ncalls,
                 panicked>>

\* A slip in Write: the count is of the bytes the sink received.
WriteReturnSinkCount(p, sent) == [n |-> Len(sent), err |-> None]

\* Write's return statement: return len(p), nil.  sent is what print wrote.
WriteReturn(p, sent) == [n |-> Len(p), err |-> None]

\* The return statement of a caller's operation and the deferred
\* s.lock.Unlock().  Only Write returns anything.
Unlock(p) ==
  /\ ~panicked
  /\ pc[p] = "in"
  /\ todo[p] = <<>>
  /\ lock' = None
  /\ pc' = [pc EXCEPT ![p] = "done"]
  /\ ret' = [ret EXCEPT ![p] = IF op[p].kind = "Write"
                                THEN WriteReturn(op[p].str, wrote[p])
                                ELSE None]
  /\ UNCHANGED <<rendererVars, termWidth, sigVars, envVars, op, todo, expected,
                 ncalls, panicked>>

\* The caller is free to call again.
Return(p) ==
  /\ ~panicked
  /\ pc[p] = "done"
  /\ pc' = [pc EXCEPT ![p] = "idle"]
  /\ op' = [op EXCEPT ![p] = NoOp]
  /\ ret' = [ret EXCEPT ![p] = None]
  /\ wrote' = [wrote EXCEPT ![p] = <<>>]
  /\ UNCHANGED <<writer, haveBlankLine, termWidth, lock, sigVars, envVars, todo,
                 screen, expected, hist, nstatus, ncalls, panicked>>

\* ------------------------------------------------- print, statusLine, ...

InCall(p, f) == ~panicked /\ pc[p] = "in" /\ todo[p] # <<>> /\ Head(todo[p]).f = f

\* fmt.Fprint(s.writer, ...): the bytes reach the sink and the terminal.
Fprint(p, bytes, tag) ==
  /\ writer' = writer \o bytes
  /\ wrote' = [wrote EXCEPT ![p] = @ \o bytes]
  /\ screen' = Feed(screen, bytes, realWidth, tag)

Step(p) ==
  /\ todo' = [todo EXCEPT ![p] = Tail(@)]
  /\ UNCHANGED <<termWidth, lock, pc, op, ret, expected, ncalls, envVars>>

\* A slip in requestLine: the line is marked blank and no newline is written.
requestLineNoNewline(p) ==
  /\ InCall(p, "requestLine")
  /\ Fprint(p, <<>>, 0)
  /\ haveBlankLine' = TRUE
  /\ hist' = [f |-> "requestLine", hbl |-> haveBlankLine, fit |-> hist.fit,
              prevFit |-> hist.fit]
  /\ Step(p)
  /\ UNCHANGED <<nstatus, sigVars, panicked>>

requestLine(p) ==
  /\ InCall(p, "requestLine")
  /\ Fprint(p, IF ~haveBlankLine THEN <<NL>> ELSE <<>>, 0)
  /\ haveBlankLine' = TRUE
  /\ hist' = [f |-> "requestLine", hbl |-> haveBlankLine, fit |-> hist.fit,
              prevFit |-> hist.fit]
  /\ Step(p)
  /\ UNCHANGED <<nstatus, sigVars, panicked>>

\* A slip in print: the line is cleared before every permanent line.
printAlwaysClears(p) ==
  /\ InCall(p, "print")
  /\ LET str == Head(todo[p]).s
     IN  Fprint(p, <<CR, EL>> \o str
                     \o (IF Len(str) = 0 \/ str[Len(str)] # NL THEN <<NL>> ELSE <<>>),
                0)
  /\ haveBlankLine' = TRUE
  /\ hist' = [f |-> "print", hbl |-> haveBlankLine, fit |-> hist.fit,
              prevFit |-> hist.fit]
  /\ Step(p)
  /\ UNCHANGED <<nstatus, sigVars, panicked>>

\* A slip in print: a newline is added after every text.
printAlwaysNewline(p) ==
  /\ InCall(p, "print")
  /\ LET str == Head(todo[p]).s
     IN  Fprint(p, (IF ~haveBlankLine THEN <<CR, EL>> ELSE <<>>) \o str \o <<NL>>, 0)
  /\ haveBlankLine' = TRUE
  /\ hist' = [f |-> "print", hbl |-> haveBlankLine, fit |-> hist.fit,
              prevFit |-> hist.fit]
  /\ Step(p)
  /\ UNCHANGED <<nstatus, sigVars, panicked>>

\* A slip in print: the status line on display is not cleared first.
printNoClear(p) ==
  /\ InCall(p, "print")
  /\ LET str == Head(todo[p]).s
     IN  Fprint(p, str \o (IF Len(str) = 0 \/ str[Len(str)] # NL THEN <<NL>> ELSE <<>>), 0)
  /\ haveBlankLine' = TRUE
  /\ hist' = [f |-> "print", hbl |-> haveBlankLine, fit |-> hist.fit,
              prevFit |-> hist.fit]
  /\ Step(p)
  /\ UNCHANGED <<nstatus, sigVars, panicked>>

print(p) ==
  /\ InCall(p, "print")
  /\ LET str == Head(todo[p]).s
     IN  Fprint(p, (IF ~haveBlankLine THEN <<CR, EL>> ELSE <<>>)
                     \o str
                     \o (IF Len(str) = 0 \/ str[Len(str)] # NL THEN <<NL>> ELSE <<>>),
                0)
  /\ haveBlankLine' = TRUE
  /\ hist' = [f |-> "print", hbl |-> haveBlankLine, fit |-> hist.fit,
              prevFit |-> hist.fit]
  /\ Step(p)
  /\ UNCHANGED <<nstatus, sigVars, panicked>>

\* A slip in statusLine: haveBlankLine is left as it was.
statusLineKeepsBlank(p) ==
  /\ InCall(p, "statusLine")
  /\ LET str == StatusText(Head(todo[p]).s, termWidth)
     IN  /\ Fprint(p, <<CR, SGR1>> \o str \o <<SGR0, EL>>, nstatus + 1)
         /\ hist' = [f |-> "statusLine", hbl |-> haveBlankLine,
                     fit |-> \/ (0 < termWidth /\ termWidth <= realWidth)
                             \/ Len(CutAtNewline(Head(todo[p]).s)) <= realWidth,
                     prevFit |-> hist.fit]
  /\ nstatus' = nstatus + 1
  /\ UNCHANGED haveBlankLine
  /\ Step(p)
  /\ UNCHANGED <<sigVars, panicked>>

\* A slip in statusLine: the rest of the line is not cleared.
statusLineNoClear(p) ==
  /\ InCall(p, "statusLine")
  /\ LET str == StatusText(Head(todo[p]).s, termWidth)
     IN  /\ Fprint(p, <<CR, SGR1>> \o str \o <<SGR0>>, nstatus + 1)
         /\ hist' = [f |-> "statusLine", hbl |-> haveBlankLine,
                     fit |-> \/ (0 < termWidth /\ termWidth <= realWidth)
                             \/ Len(CutAtNewline(Head(todo[p]).s)) <= realWidth,
                     prevFit |-> hist.fit]
  /\ nstatus' = nstatus + 1
  /\ haveBlankLine' = FALSE
  /\ Step(p)
  /\ UNCHANGED <<sigVars, panicked>>

statusLine(p) ==
  /\ InCall(p, "statusLine")
  /\ LET str == StatusText(Head(todo[p]).s, termWidth)
     IN  /\ Fprint(p, <<CR, SGR1>> \o str \o <<SGR0, EL>>, nstatus + 1)
         /\ hist' = [f |-> "statusLine", hbl |-> haveBlankLine,
                     fit |-> \/ (0 < termWidth /\ termWidth <= realWidth)
                             \/ Len(CutAtNewline(Head(todo[p]).s)) <= realWidth,
                     prevFit |-> hist.fit]
  /\ nstatus' = nstatus + 1
  /\ haveBlankLine' = FALSE
  /\ Step(p)
  /\ UNCHANGED <<sigVars, panicked>>

\* signal.Stop(s.sigwinch); close(s.sigwinch).  Closing a closed channel
\* panics: Flush's deferred Unlock runs and the process dies.
stopSigwinch(p) ==
  /\ InCall(p, "stopSigwinch")
  /\ notifying' = FALSE
  /\ IF sigwinch = "closed"
     THEN /\ panicked' = TRUE
          /\ lock' = None
          /\ pc' = [pc EXCEPT ![p] = "panicked"]
          /\ UNCHANGED <<sigwinch, todo>>
     ELSE /\ sigwinch' = "closed"
          /\ todo' = [todo EXCEPT ![p] = Tail(@)]
          /\ UNCHANGED <<panicked, lock, pc>>
  /\ UNCHANGED <<rendererVars, termWidth, sigwinchHandled, wpc, lost, op, ret,
                 expected, ncalls, envVars>>

\* ------------------------------------------------- the SIGWINCH goroutine

\* A slip in updateTermSize: a failed query clears the width.
updateTermSizeClears(ok) ==
  /\ termWidth' = IF ok THEN realWidth ELSE 0
  /\ lastQuery' = IF ok THEN "ok" ELSE "failed"

\* updateTermSize: termWidth(s.writer) answers (w, ok); w is kept when ok.
updateTermSize(ok) ==
  /\ termWidth' = IF ok THEN realWidth ELSE termWidth
  /\ lastQuery' = IF ok THEN "ok" ELSE "failed"

\* for _ = range s.sigwinch, the channel closed: the goroutine ends.
SigwinchExit ==
  /\ ~panicked
  /\ wpc = "range"
  /\ sigwinch = "closed"
  /\ wpc' = "exit"
  /\ UNCHANGED <<rendererVars, termWidth, lock, sigwinch, notifying,
                 sigwinchHandled, lost, pc, op, ret, todo, expected, ncalls,
                 envVars, panicked>>

\* A slip in the goroutine: the width is updated without the lock.
SigwinchLockNoLock ==
  /\ ~panicked
  /\ wpc = "lock"
  /\ wpc' = "locked"
  /\ UNCHANGED <<rendererVars, termWidth, lock, sigwinch, notifying,
                 sigwinchHandled, lost, pc, op, ret, todo, expected, ncalls,
                 envVars, panicked>>

\* s.lock.Lock() of the goroutine, a notification received.
SigwinchLock ==
  /\ ~panicked
  /\ wpc = "lock"
  /\ Acquire("watcher")
  /\ wpc' = "locked"
  /\ UNCHANGED <<rendererVars, termWidth, sigwinch, notifying, sigwinchHandled,
                 lost, pc, op, ret, todo, expected, ncalls, envVars, panicked>>

\* s.updateTermSize(); s.lock.Unlock()
SigwinchUpdate ==
  /\ ~panicked
  /\ wpc = "locked"
  /\ \E ok \in BOOLEAN : updateTermSize(ok)
  /\ lock' = None
  /\ wpc' = "hook"
  /\ UNCHANGED <<rendererVars, sigwinch, notifying, sigwinchHandled, lost, pc,
                 op, ret, todo, expected, ncalls, realWidth, nresizes, panicked>>

\* if s.sigwinchHandled != nil { s.sigwinchHandled <- true }: with no channel
\* the goroutine goes back to the range at once; with one (it has no buffer)
\* it does when the other side receives.
SigwinchHandled ==
  /\ ~panicked
  /\ wpc = "hook"
  /\ wpc' = "range"
  /\ UNCHANGED <<rendererVars, termWidth, lock, sigwinch, notifying,
                 sigwinchHandled, lost, pc, op, ret, todo, expected, ncalls,
                 envVars, panicked>>

\* ------------------------------------------------------ the environment

\* The terminal is resized.  os/signal sends the notification without
\* blocking: s.sigwinch has no buffer (make(chan os.Signal)), so the goroutine
\* gets it only when it is waiting in the range; otherwise it is dropped.
ResizeUpTo(n) ==
  /\ ~panicked
  /\ nresizes < n
  /\ nresizes' = nresizes + 1
  /\ \E w \in Widths \ {realWidth} : realWidth' = w
  /\ IF notifying /\ wpc = "range"
     THEN wpc' = "lock" /\ UNCHANGED lost
     ELSE /\ lost' = (lost \/ notifying)
          /\ UNCHANGED wpc
  /\ UNCHANGED <<rendererVars, termWidth, lock, sigwinch, notifying,
                 sigwinchHandled, pc, op, ret, todo, expected, ncalls, lastQuery,
                 panicked>>

Resize == ResizeUpTo(MaxResizes)

\* The resizes of the specification of the goroutine.
ResizeWatch == ResizeUpTo(MaxWatchResizes)

\* ------------------------------------------------------ the specification

EmptyScreen == [rows |-> <<<<>>>>, col |-> 0]

NoHist == [f |-> None, hbl |-> TRUE, fit |-> TRUE, prevFit |-> TRUE]

\* NewSmartStatusOutput has returned: the width queried once, the goroutine
\* waiting for notifications.  The field sigwinchHandled is nil (FALSE) unless
\* a test has set it: H is the set of the cases considered.
InitFor(H) ==
  /\ writer = <<>>
  /\ haveBlankLine = TRUE
  /\ realWidth \in Widths
  /\ \E ok \in BOOLEAN :
       /\ termWidth = (IF ok THEN realWidth ELSE 0)
       /\ lastQuery = (IF ok THEN "ok" ELSE "failed")
  /\ lock = None
  /\ sigwinch = "open"
  /\ notifying = TRUE
  /\ sigwinchHandled \in H
  /\ wpc = "range"
  /\ pc = [p \in Callers |-> "idle"]
  /\ op = [p \in Callers |-> NoOp]
  /\ ret = [p \in Callers |-> None]
  /\ todo = [p \in Callers |-> <<>>]
  /\ wrote = [p \in Callers |-> <<>>]
  /\ screen = EmptyScreen
  /\ expected = <<>>
  /\ hist = NoHist
  /\ nstatus = 0
  /\ ncalls = 0
  /\ nresizes = 0
  /\ lost = FALSE
  /\ panicked = FALSE

CallerNext(p, T) ==
  \/ Message(p, T)
  \/ StartAction(p, T)
  \/ FinishAction(p, T)
  \/ Flush(p)
  \/ Write(p, T)
  \/ Lock(p)
  \/ requestLine(p)
  \/ print(p)
  \/ statusLine(p)
  \/ stopSigwinch(p)
  \/ Unlock(p)
  \/ Return(p)

\* One caller at a time, the goroutine and the operating system.
Init == InitFor({FALSE})

Next ==
  \/ \E p \in {"c1"} : CallerNext(p, Texts)
  \/ SigwinchExit
  \/ SigwinchLock
  \/ SigwinchUpdate
  \/ SigwinchHandled
  \/ Resize

Spec == Init /\ [][Next]_vars

\* Two callers at once, with the shorter texts.
InitConc == InitFor({FALSE})

NextConc ==
  \/ \E p \in Callers : CallerNext(p, ShortTexts)
  \/ SigwinchExit
  \/ SigwinchLock
  \/ SigwinchUpdate
  \/ SigwinchHandled
  \/ Resize

SpecConc == InitConc /\ [][NextConc]_vars

\* The goroutine at work: one caller with the shorter texts, the hook
\* sigwinchHandled nil or set by a test (whose other side receives when it
\* likes), and resizes that follow one another.
InitWatch == InitFor(BOOLEAN)

NextWatch ==
  \/ \E p \in {"c1"} : CallerNext(p, ShortTexts)
  \/ SigwinchExit
  \/ SigwinchLock
  \/ SigwinchUpdate
  \/ SigwinchHandled
  \/ ResizeWatch

SpecWatch == InitWatch /\ [][NextWatch]_vars

\* The steps of a caller between its call and its return: the runtime runs
\* every goroutine that can run.
CallerStep(p) ==
  \/ requestLine(p)
  \/ print(p)
  \/ statusLine(p)
  \/ stopSigwinch(p)
  \/ Unlock(p)

\* Fair scheduling: a goroutine that can take a step takes it, and sync.Mutex
\* hands the lock to a goroutine that keeps asking for it.  Nothing obliges
\* the other side of sigwinchHandled to receive, nor the callers to call.
Fairness ==
  /\ \A p \in Callers : WF_vars(CallerStep(p)) /\ SF_vars(Lock(p))
  /\ SF_vars(SigwinchLock)
  /\ WF_vars(SigwinchUpdate)
  /\ WF_vars(SigwinchExit)
  /\ WF_vars(SigwinchHandled /\ ~sigwinchHandled)

\* The calls that matter to the scheduling: one that sets the status line,
\* one that prints, and Flush, on one text, by two callers at once.
LiveTexts == {<<"a">>}

LiveCallerNext(p) ==
  \/ StartAction(p, LiveTexts)
  \/ Write(p, LiveTexts)
  \/ Flush(p)
  \/ Lock(p)
  \/ requestLine(p)
  \/ print(p)
  \/ statusLine(p)
  \/ stopSigwinch(p)
  \/ Unlock(p)
  \/ Return(p)

NextLive ==
  \/ \E p \in Callers : LiveCallerNext(p)
  \/ SigwinchExit
  \/ SigwinchLock
  \/ SigwinchUpdate
  \/ SigwinchHandled
  \/ ResizeWatch

SpecLive == InitWatch /\ [][NextLive]_vars /\ Fairness

\* A single call of statusLine, on every text and width: StartAction holds the
\* lock and is about to call statusLine(str); the terminal is termWidth wide,
\* or the width is unknown (0).
InitProbe ==
  /\ writer = <<>>
  /\ haveBlankLine = TRUE
  /\ termWidth \in ProbeWidths
  /\ realWidth = (IF termWidth > 0 THEN termWidth ELSE MaxWidth)
  /\ lastQuery = (IF termWidth > 0 THEN "ok" ELSE "failed")
  /\ lock = "c1"
  /\ sigwinch = "open"
  /\ notifying = TRUE
  /\ sigwinchHandled = FALSE
  /\ wpc = "range"
  /\ \E str \in ProbeTexts :
       /\ op = [p \in Callers |->
                  IF p = "c1"
                  THEN [kind |-> "StartAction", level |-> 0, str |-> str, output |-> <<>>]
                  ELSE NoOp]
       /\ todo = [p \in Callers |-> IF p = "c1" THEN <<Call("statusLine", str)>> ELSE <<>>]
       /\ expected = StatusBytes(str, termWidth)
  /\ pc = [p \in Callers |-> IF p = "c1" THEN "in" ELSE "idle"]
  /\ ret = [p \in Callers |-> None]
  /\ wrote = [p \in Callers |-> <<>>]
  /\ screen = EmptyScreen
  /\ hist = NoHist
  /\ nstatus = 0
  /\ ncalls = MaxCalls
  /\ nresizes = MaxResizes
  /\ lost = FALSE
  /\ panicked = FALSE

NextProbe ==
  \/ statusLine("c1")
  \/ Unlock("c1")
  \/ Return("c1")

SpecProbe == InitProbe /\ [][NextProbe]_vars

\* ----------------------------------------------------------------- claims

IsPrefix(a, b) == Len(a) <= Len(b) /\ SubSeq(b, 1, Len(a)) = a

\* The caller has made every call of its operation and still holds the lock.
AtEnd(p) == pc[p] = "in" /\ todo[p] = <<>>

\* C1: Flush may be called any number of times: the channel is closed once and
\* no call panics.
C1_FlushNeverPanics == ~panicked

\* The caller was the first to panic in stopSigwinch, on the second Flush.
C1_SecondFlush == \E p \in Callers : pc[p] = "panicked" /\ op[p].kind = "Flush"

\* C2: at most one call is in its rendering section at a time, and the sink
\* has received the outputs of the calls, each whole, in the order the calls
\* took the lock: what the sink holds is what the calls that took the lock
\* write when each runs alone (all of it once the lock is free), and the bytes
\* of the call in progress are the last the sink received.
C2_CallsAreAtomic ==
  /\ Cardinality({p \in Callers : pc[p] = "in"}) <= 1
  /\ IsPrefix(writer, expected)
  /\ lock = None => writer = expected
  /\ \A p \in Callers :
       pc[p] = "in" =>
         /\ Len(wrote[p]) <= Len(writer)
         /\ SubSeq(writer, Len(writer) - Len(wrote[p]) + 1, Len(writer)) = wrote[p]

\* Two calls that were in progress together have both written and returned.
C2_BothWrote ==
  /\ pc["c1"] = "done"
  /\ pc["c2"] = "done"
  /\ op["c1"].kind = "FinishAction"
  /\ op["c1"].output # <<>>
  /\ wrote["c2"] # <<>>
  /\ writer = wrote["c2"] \o wrote["c1"]

AtBlankLine == screen.col = 0 /\ CursorRow = <<>>

\* The text of the status line written last: the bytes of the sink between
\* its last \x1b[1m and the \x1b[0m \x1b[K that end it.
LastStatusText ==
  LET i == CHOOSE k \in 1..Len(writer) :
             writer[k] = SGR1 /\ \A j \in (k + 1)..Len(writer) : writer[j] # SGR1
  IN  SubSeq(writer, i + 1, Len(writer) - 2)

\* C3 as stated: whenever the lock is free, haveBlankLine is true if and only
\* if the cursor is at the start of an empty line.
C3_BlankIffEmptyLine == lock = None => (haveBlankLine <=> AtBlankLine)

\* C3 as amended: whenever the lock is free, haveBlankLine true means the
\* cursor is at the start of an empty line; haveBlankLine false means the
\* cursor is at the end of the status line written last, on a row that holds
\* bytes of that status line only, and that row is empty (so that the cursor is
\* at the start of an empty line all the same) exactly when the text of the
\* status line, cut at its first newline and elided, is empty.
C3_BlankMeansEmptyLine ==
  lock = None =>
    /\ haveBlankLine => AtBlankLine
    /\ ~haveBlankLine =>
         /\ hist.f = "statusLine"
         /\ screen.col = Len(CursorRow)
         /\ \A c \in 1..Len(CursorRow) : CursorRow[c].tag = nstatus
         /\ (CursorRow = <<>>) <=> (LastStatusText = <<>>)

\* A status line with an empty text is on display, after a permanent line.
C3_EmptyStatusShown ==
  /\ lock = None
  /\ ~haveBlankLine
  /\ AtBlankLine
  /\ Len(screen.rows) > 1

\* C4 as stated: a status line written over a status line leaves no byte of
\* the earlier one on the screen, whatever the widths.
C4_StatusOverwritesStatus ==
  (hist.f = "statusLine" /\ ~hist.hbl) => CellsOf(nstatus - 1) = {}

\* C4 as amended: a status line written over a status line leaves no byte of
\* the earlier one on the screen, provided each of the two was written while
\* the renderer's width was known and no larger than the terminal's, or was
\* short enough for the terminal without being cut.
C4_StatusOverwritesFittingStatus ==
  (hist.f = "statusLine" /\ ~hist.hbl /\ hist.fit /\ hist.prevFit)
    => CellsOf(nstatus - 1) = {}

\* A shorter status line has replaced a longer one that was cut to the width.
C4_ShorterOverLonger ==
  /\ hist.f = "statusLine"
  /\ ~hist.hbl
  /\ hist.fit
  /\ hist.prevFit
  /\ nstatus = 2
  /\ termWidth = MaxWidth
  /\ writer = <<CR, SGR1>> \o [i \in 1..MaxWidth |-> "a"] \o <<SGR0, EL, CR, SGR1, SGR0, EL>>

\* C5 as stated: after print, no byte of the status line that was on display
\* is left on the screen, and the cursor is at the start of an empty row.
C5_PrintLeavesNoStatus ==
  hist.f = "print" =>
    /\ ~hist.hbl => CellsOf(nstatus) = {}
    /\ AtBlankLine

\* C5 as amended: after print the cursor is at the start of an empty row, and
\* no byte of the status line that was on display is left on the screen
\* provided that status line was written while the renderer's width was known
\* and no larger than the terminal's, or was short enough for the terminal
\* without being cut.
C5_PrintLeavesNoFittingStatus ==
  hist.f = "print" =>
    /\ (~hist.hbl /\ hist.fit) => CellsOf(nstatus) = {}
    /\ AtBlankLine

\* print has replaced a status line with a text on display.
C5_PrintOverStatus ==
  /\ hist.f = "print"
  /\ ~hist.hbl
  /\ hist.fit
  /\ nstatus = 1
  /\ \E i \in 1..Len(writer) : writer[i] = SGR1 /\ writer[i + 1] = "a"
  /\ \E i \in 1..Len(writer) : writer[i] = EL /\ i < Len(writer) /\ writer[i + 1] = "a"

\* C6: FinishAction with a result output has written, as the last bytes of the
\* sink, the status line, a newline, the output and a newline unless the
\* output ends in one, and haveBlankLine is true; with an empty output it has
\* written the status line only, and haveBlankLine is false.
C6_FinishActionOrder ==
  \A p \in Callers :
    (AtEnd(p) /\ op[p].kind = "FinishAction") =>
      LET status == <<CR, SGR1>> \o StatusText(op[p].str, termWidth) \o <<SGR0, EL>>
          out == op[p].output
      IN  /\ IsPrefix(status, wrote[p])
          /\ SubSeq(writer, Len(writer) - Len(wrote[p]) + 1, Len(writer)) = wrote[p]
          /\ IF out # <<>>
             THEN /\ haveBlankLine
                  /\ wrote[p] = status \o <<NL>> \o out
                                  \o (IF out[Len(out)] = NL THEN <<>> ELSE <<NL>>)
             ELSE /\ ~haveBlankLine
                  /\ wrote[p] = status

\* FinishAction with a progress line and an output has made its three calls.
C6_FinishedWithOutput ==
  /\ AtEnd("c1")
  /\ op["c1"].kind = "FinishAction"
  /\ op["c1"].str = <<"a">>
  /\ op["c1"].output = <<"a", "a">>
  /\ Len(writer) > Len(wrote["c1"])

Prefixes(str) == {SubSeq(str, 1, k) : k \in 0..Len(str)}

NoNewline(str) == \A i \in 1..Len(str) : str[i] # NL

Longest(S) == CHOOSE r \in S : \A q \in S : Len(q) <= Len(r)

\* The characters of a byte string: the lead byte followed by the continuation
\* byte is one character, any other byte is one character.
CharLen(str) ==
  Len(str) - Cardinality({i \in 1..(Len(str) - 1) : str[i] = "U1" /\ str[i + 1] = "U2"})

\* The prefix r of str ends between two characters of str.
WholeChars(r, str) ==
  ~(Len(r) > 0 /\ Len(r) < Len(str) /\ str[Len(r)] = "U1" /\ str[Len(r) + 1] = "U2")

\* The text statusLine wrote between \x1b[1m and \x1b[0m.
Shown(p) == SubSeq(wrote[p], 3, Len(wrote[p]) - 2)

\* C7 as stated: the text between the escapes is the input cut at its first
\* newline and then to its first termWidth characters (the whole of it when
\* termWidth is 0): the longest prefix of the input that holds no newline and
\* at most termWidth whole characters.
C7_CutToCharacters ==
  \A p \in Callers :
    (AtEnd(p) /\ op[p].kind = "StartAction") =>
      Shown(p) = Longest({r \in Prefixes(op[p].str) :
                            /\ NoNewline(r)
                            /\ WholeChars(r, op[p].str)
                            /\ termWidth > 0 => CharLen(r) <= termWidth})

\* C7 as amended: the text between the escapes is the input cut at its first
\* newline and then to its first termWidth bytes (the whole of it when
\* termWidth is 0): the longest prefix of the input that holds no newline and
\* at most termWidth bytes.
C7_CutToBytes ==
  \A p \in Callers :
    (AtEnd(p) /\ op[p].kind = "StartAction") =>
      Shown(p) = Longest({r \in Prefixes(op[p].str) :
                            /\ NoNewline(r)
                            /\ termWidth > 0 => Len(r) <= termWidth})

\* The example of the specification: fifteen letters on a terminal ten wide.
C7_FifteenLettersWidthTen ==
  /\ AtEnd("c1")
  /\ op["c1"].str = Alphabet15
  /\ termWidth = 10
  /\ Shown("c1") = <<"A", "B", "C", "D", "E", "F", "G", "H", "I", "J">>

\* C8 as stated: when the last width query failed, at construction or on a
\* notification, a status line is written whole up to its first newline.
C8_FailedQueryNoTruncation ==
  \A p \in Callers :
    (AtEnd(p) /\ op[p].kind = "StartAction" /\ lastQuery = "failed") =>
      wrote[p] = <<CR, SGR1>> \o CutAtNewline(op[p].str) \o <<SGR0, EL>>

\* C8 as amended: a failed width query changes nothing and stops nothing.
\* After a failed query at construction a status line is written whole up to
\* its first newline; a failed query on a notification leaves termWidth as it
\* was (so that status lines are still cut to the last known width), and the
\* goroutine goes on.
C8_FailedQueryKeepsWidth ==
  /\ [](\A p \in Callers :
          (AtEnd(p) /\ op[p].kind = "StartAction" /\ lastQuery = "failed" /\ nresizes = 0) =>
            wrote[p] = <<CR, SGR1>> \o CutAtNewline(op[p].str) \o <<SGR0, EL>>)
  /\ [][(wpc = "locked" /\ wpc' # "locked" /\ lastQuery' = "failed") =>
          (termWidth' = termWidth /\ wpc' = "hook" /\ ~panicked')]_vars

\* A query failed on a notification, and a status line longer than the last
\* known width has been written since.
C8_CutAfterFailedQuery ==
  /\ lastQuery = "failed"
  /\ nresizes > 0
  /\ termWidth = 1
  /\ AtEnd("c1")
  /\ op["c1"].kind = "StartAction"
  /\ op["c1"].str = <<"a", "a">>

\* C9: a Message below the status level returns without taking the lock: it
\* has written nothing and has no call of print or statusLine to make, and the
\* step that makes the call leaves the sink, haveBlankLine and termWidth alone.
C9_MessageBelowStatusDropped ==
  /\ [](\A p \in Callers :
          (op[p].kind = "Message" /\ op[p].level < StatusLvl) =>
            (pc[p] = "done" /\ wrote[p] = <<>> /\ todo[p] = <<>> /\ lock # p))
  /\ [][\A p \in Callers :
          (op[p] # op'[p] /\ op'[p].kind = "Message" /\ op'[p].level < StatusLvl) =>
            UNCHANGED <<writer, haveBlankLine, termWidth, screen, lock>>]_vars

\* A Message below the status level was made while a status line was on display.
C9_DroppedOverStatus ==
  /\ op["c1"].kind = "Message"
  /\ op["c1"].level < StatusLvl
  /\ ~haveBlankLine
  /\ writer # <<>>

\* C10: a Message above the status level has written its text as print does
\* (the line cleared first when a status line was on display, a newline added
\* unless the text ends in one) and haveBlankLine is true; a Message at the
\* status level has written its text as the status line and haveBlankLine is
\* false.
C10_MessageLevels ==
  \A p \in Callers :
    (AtEnd(p) /\ op[p].kind = "Message") =>
      LET str == op[p].str
      IN  IF op[p].level > StatusLvl
          THEN /\ haveBlankLine
               /\ hist.f = "print"
               /\ wrote[p] = (IF hist.hbl THEN <<>> ELSE <<CR, EL>>) \o str
                               \o (IF str # <<>> /\ str[Len(str)] = NL THEN <<>> ELSE <<NL>>)
          ELSE /\ op[p].level = StatusLvl
               /\ ~haveBlankLine
               /\ hist.f = "statusLine"
               /\ wrote[p] = <<CR, SGR1>> \o StatusText(str, termWidth) \o <<SGR0, EL>>

\* A Message at the status level has replaced a permanent line's blank line.
C10_StatusMessageAfterPrint ==
  /\ AtEnd("c1")
  /\ op["c1"].kind = "Message"
  /\ op["c1"].level = StatusLvl
  /\ op["c1"].str = <<"a">>
  /\ hist.hbl
  /\ writer # wrote["c1"]

\* C11: Write(p) is answered with (len(p), nil), for every p (the empty slice,
\* a slice with no newline at its end) and every state of the renderer, and
\* it has passed p through print: the sink has got what print writes for p,
\* which is more than len(p) bytes when the line was cleared first or a
\* newline was added.
C11_WriteReturnsLen ==
  \A p \in Callers :
    (pc[p] = "done" /\ op[p].kind = "Write") =>
      /\ ret[p] = [n |-> Len(op[p].str), err |-> None]
      /\ hist.f = "print"
      /\ wrote[p] = PrintBytes(op[p].str, hist.hbl)

\* Write of the empty slice over a status line has returned 0 and no error;
\* the sink has got three bytes.
C11_EmptyWriteOverStatus ==
  /\ pc["c1"] = "done"
  /\ op["c1"].kind = "Write"
  /\ op["c1"].str = <<>>
  /\ ret["c1"] = [n |-> 0, err |-> None]
  /\ wrote["c1"] = <<CR, EL, NL>>

\* C12: every Flush runs to its end, and there it has stopped the watcher
\* (no more notifications, the channel closed), has written exactly one
\* newline if a status line was on display and nothing if the line was blank,
\* and haveBlankLine is true.
C12_FlushCommitsLine ==
  \A p \in Callers :
    (op[p].kind = "Flush") =>
      /\ pc[p] # "panicked"
      /\ AtEnd(p) =>
           /\ ~notifying
           /\ sigwinch = "closed"
           /\ hist.f = "requestLine"
           /\ wrote[p] = (IF hist.hbl THEN <<>> ELSE <<NL>>)
           /\ haveBlankLine

\* C13: every resize notification sent while the renderer is subscribed is
\* handled by a new query of the width, none is lost, also when it comes while
\* the goroutine handles the one before or waits for the lock: whenever the
\* goroutine is back at its receive and the last query succeeded, none was
\* dropped and termWidth is the width of the terminal.
C13_EveryResizeHandled ==
  (notifying /\ wpc = "range" /\ lastQuery = "ok") =>
    (~lost /\ termWidth = realWidth)

\* C14: under fair scheduling every call of a dispatcher operation that asks
\* for the lock gets it, completes its writes and returns, in every
\* interleaving with the other calls and the goroutine, a registered hook
\* with a slow receiver included.
C14_EveryCallReturns ==
  \A p \in Callers : (pc[p] = "lock") ~> (pc[p] = "done")

\* C15: termWidth does not change while a dispatcher operation holds the
\* lock, the goroutine taking the same lock to update it: no step taken while
\* a caller is inside changes termWidth, and what the caller has written
\* followed by what is left for it to write at the present termWidth is what
\* its call writes at the termWidth of the moment it acquired the lock.
C15_WidthStableUnderLock ==
  /\ [](\A p \in Callers :
          (pc[p] = "in") =>
            writer \o RunOutput(todo[p], haveBlankLine, termWidth, sigwinch) = expected)
  /\ [][(\E p \in Callers : pc[p] = "in") => termWidth' = termWidth]_vars

\* A caller holds the lock with a status line still to write, the terminal
\* has been resized, and the goroutine waits for the lock to update the width.
C15_ResizeDuringCall ==
  /\ pc["c1"] = "in"
  /\ todo["c1"] # <<>>
  /\ Head(todo["c1"]).f = "statusLine"
  /\ wpc = "lock"
  /\ termWidth # 0
  /\ realWidth < termWidth

\* The bytes the call of print that has just ended wrote: all of a Message's
\* or a Write's, and in FinishAction what follows the status line and the
\* newline of requestLine.
PrintPart(p) ==
  IF op[p].kind = "FinishAction"
  THEN SubSeq(wrote[p], Len(StatusBytes(op[p].str, termWidth)) + 2, Len(wrote[p]))
  ELSE wrote[p]

\* The caller's call of print has just ended.
AfterPrint(p) == AtEnd(p) /\ hist.f = "print"

\* The number of \x1b[K in a sequence of bytes.
RECURSIVE CountEL(_)
CountEL(b) ==
  IF b = <<>> THEN 0 ELSE (IF Head(b) = EL THEN 1 ELSE 0) + CountEL(Tail(b))

\* C16: print writes \r \x1b[K, once and first, if and only if haveBlankLine
\* was false when it was called (a status line on display); called with
\* haveBlankLine true it writes no \x1b[K at all.
C16_PrintClearsIffStatus ==
  \A p \in Callers :
    AfterPrint(p) =>
      IF hist.hbl
      THEN CountEL(PrintPart(p)) = 0 /\ ~IsPrefix(<<CR>>, PrintPart(p))
      ELSE CountEL(PrintPart(p)) = 1 /\ IsPrefix(<<CR, EL>>, PrintPart(p))

\* A Write over a status line: the line is cleared, then the text written.
C16_WriteOverStatus ==
  /\ AfterPrint("c1")
  /\ op["c1"].kind = "Write"
  /\ ~hist.hbl
  /\ PrintPart("c1") = <<CR, EL, "a", NL>>

\* The text handed to the call of print that has just ended.
PrintedText(p) == IF op[p].kind = "FinishAction" THEN op[p].output ELSE op[p].str

\* What that call wrote after the \r \x1b[K it may have started with.
PrintBody(p) ==
  IF hist.hbl THEN PrintPart(p) ELSE SubSeq(PrintPart(p), 3, Len(PrintPart(p)))

\* C17: print leaves haveBlankLine true; it writes the text as it is, then
\* one newline if the text is empty or does not end in a newline and nothing
\* otherwise, so that the last byte written is a newline: the text's own or
\* the one added.
C17_PrintEndsLine ==
  \A p \in Callers :
    AfterPrint(p) =>
      LET str == PrintedText(p)
          body == PrintBody(p)
          needs == str = <<>> \/ str[Len(str)] # NL
      IN  /\ haveBlankLine
          /\ IsPrefix(str, body)
          /\ Len(body) = Len(str) + (IF needs THEN 1 ELSE 0)
          /\ body[Len(body)] = NL
          /\ writer[Len(writer)] = NL

\* A text that ends in a newline has been printed: no newline was added.
C17_OwnNewline ==
  /\ AfterPrint("c1")
  /\ PrintedText("c1") = <<"a", NL>>
  /\ PrintBody("c1") = <<"a", NL>>

\* The caller's call of statusLine, the first call of its operation, has just
\* ended.
AfterStatusLine(p) ==
  /\ pc[p] = "in"
  /\ hist.f = "statusLine"
  /\ \/ op[p].kind \in {"StartAction", "FinishAction"}
     \/ op[p].kind = "Message" /\ op[p].level = StatusLvl
  /\ todo[p] = <<>> \/ Head(todo[p]).f # "statusLine"

\* C18: statusLine leaves haveBlankLine false whatever the text (empty,
\* beginning with a newline) and writes five parts in this order and nothing
\* else: \r, \x1b[1m, the text (cut at its first newline, and to termWidth
\* bytes when termWidth is positive), \x1b[0m, \x1b[K.
C18_StatusLineBytes ==
  \A p \in Callers :
    AfterStatusLine(p) =>
      LET text == Longest({r \in Prefixes(op[p].str) :
                             /\ NoNewline(r)
                             /\ termWidth > 0 => Len(r) <= termWidth})
      IN  /\ ~haveBlankLine
          /\ wrote[p] = <<CR>> \o <<SGR1>> \o text \o <<SGR0>> \o <<EL>>

\* A status line whose text begins with a newline, set over a blank line: the
\* four escapes and no text, and haveBlankLine false.
C18_NewlineFirst ==
  /\ AfterStatusLine("c1")
  /\ op["c1"].str = <<NL, "a">>
  /\ hist.hbl
  /\ wrote["c1"] = <<CR, SGR1, SGR0, EL>>
  /\ ~haveBlankLine

\* Flush has returned: the channel is closed and no Flush is inside.
FlushReturned ==
  /\ sigwinch = "closed"
  /\ \A p \in Callers : ~(op[p].kind = "Flush" /\ pc[p] = "in")

\* The goroutine's send on sigwinchHandled is received.
HookSignalled == sigwinchHandled /\ wpc = "hook" /\ wpc' = "range"

\* C19 (what it forbids): once Flush has returned no step changes termWidth
\* and none signals the hook, whatever the goroutine had received before
\* Flush took the lock.
C19_StoppedAfterFlush ==
  [][FlushReturned => (termWidth' = termWidth /\ ~HookSignalled)]_vars

\* The last n bytes of the sink.
SinkTail(n) == SubSeq(writer, Len(writer) - n + 1, Len(writer))

\* C20: whenever the lock is free, haveBlankLine is true if and only if the
\* sink is empty or its last byte is a newline, and when haveBlankLine is false
\* the sink ends with \x1b[0m \x1b[K; no step of the goroutine changes
\* haveBlankLine or the sink.
C20_BlankIffNewlineLast ==
  /\ [](lock = None =>
          /\ haveBlankLine <=> (writer = <<>> \/ writer[Len(writer)] = NL)
          /\ ~haveBlankLine => (Len(writer) >= 2 /\ SinkTail(2) = <<SGR0, EL>>))
  /\ [][wpc' # wpc => UNCHANGED <<haveBlankLine, writer>>]_vars

\* The goroutine has updated the width under a status line on display and
\* released the lock.
C20_UpdateUnderStatus ==
  /\ lock = None
  /\ wpc = "hook"
  /\ ~haveBlankLine
  /\ SinkTail(3) = <<"a", SGR0, EL>>

====
